---- MODULE Spec2Model ----
(***************************************************************************)
(* One run of the Streamlit page script pages/data_hub.py: the import-time *)
(* fallback for the charting package, the page configuration, and one      *)
(* render cycle of main() with its two tab handlers.                       *)
(*                                                                         *)
(* A dataframe is the sequence of its rows; every table has the columns    *)
(* Columns.  An optional value (Python's None or a value) is the empty     *)
(* sequence or a one-element sequence.                                     *)
(***************************************************************************)
EXTENDS Integers, Sequences, FiniteSets

VARIABLES
    pc,               \* position of the script
    err,              \* the exception that ended the script, "" if none
    imports,          \* attempts to import plotly.express
    installs,         \* runs of "pip install plotly"
    page_configured,  \* st.set_page_config has run
    db,               \* the Dataset table of the database
    datasets,         \* main: result of db.query(Dataset).all()
    dataset_name,     \* main: value of the "Select Dataset" selectbox
    data_limit,       \* main: value of the "Number of Rows to Fetch" input
    selected_dataset, \* main: result of the lookup by name (optional record)
    data_path,        \* main: selected_dataset.filepath
    file_rows,        \* rows of the file at data_path, as read by load_data
    selected_data,    \* main: the loaded dataframe
    filter_options,   \* options of each "Filter by <column>" selectbox shown
    filters,          \* main: the filter dictionary
    filtered_data,    \* main: the result of apply_filters
    trace,            \* the calls and widgets of main(), in order
    summary_input,    \* dataframe handed to handle_data_summary_tab
    analysis_input,   \* dataframe handed to handle_data_analysis_tab
    table_shown,      \* dataframe handed to the final st.dataframe
    charts,           \* px.histogram calls of display_column_summary
    summary_column,   \* column chosen in the Column-Level Summary sub-tab
    analysis_option,  \* value of the "Select an Analysis Type" selectbox
    analysis_ready,   \* the columns the chosen analysis needs are selected
    analysis_calls    \* calls of the display_*_analysis routines

vars == <<pc, err, imports, installs, page_configured, db, datasets,
          dataset_name, data_limit, selected_dataset, data_path, file_rows,
          selected_data, filter_options, filters, filtered_data, trace,
          summary_input, analysis_input, table_shown, charts, summary_column,
          analysis_option, analysis_ready, analysis_calls>>

(***************************************************************************)
(* Bounds of the model.                                                    *)
(***************************************************************************)
MaxRows == 2
MaxDatasets == 2

(***************************************************************************)
(* Constants of the program.                                               *)
(***************************************************************************)
FilterThreshold == 100
NBins == 30
MinLimit == 1
DefaultLimit == 1000

None == << >>
Some(v) == <<v>>

(***************************************************************************)
(* Data: tables, dataset records, row limits.                              *)
(***************************************************************************)
Columns == <<"id", "cat">>
ColumnSet == {Columns[i] : i \in 1..Len(Columns)}

IdVals == 1..2
CatVals == {"a", "b"}
Row == [id : IdVals, cat : CatVals]

SmallTables == UNION {[1..n -> Row] : n \in 0..MaxRows}
BigTable(n) == [i \in 1..n |-> [id |-> i, cat |-> IF i % 2 = 1 THEN "a" ELSE "b"]]
BigTables == {BigTable(n) : n \in {FilterThreshold - 1, FilterThreshold}}
FileContents == SmallTables \cup BigTables

DatasetAt(i) ==
    IF i = 1 THEN [name |-> "sales", filepath |-> "uploads/sales.csv"]
    ELSE IF i = 2 THEN [name |-> "", filepath |-> "uploads/blank.csv"]
    ELSE [name |-> "iris", filepath |-> "uploads/iris.csv"]
DbChoices == {[i \in 1..n |-> DatasetAt(i)] : n \in 0..MaxDatasets}

Limits == {MinLimit, MinLimit + 1, DefaultLimit}

IsNumericDtype(column) == column = "id"

(***************************************************************************)
(* Library calls.                                                          *)
(***************************************************************************)
\* selected_data[column].unique(): the distinct values, in order of appearance
Second(pairs) == [k \in 1..Len(pairs) |-> pairs[k][2]]
Unique(df, column) ==
    Second(SelectSeq([i \in 1..Len(df) |-> <<i, df[i][column]>>],
                     LAMBDA p : \A j \in 1..(p[1] - 1) : df[j][column] # p[2]))

\* options=[None] + list(unique_vals)
FilterOptions(unique_vals) ==
    <<None>> \o [i \in 1..Len(unique_vals) |-> Some(unique_vals[i])]

\* st.selectbox called without index: the first option is preselected
SelectboxDefault(options) == Head(options)

\* st.multiselect: any selection of distinct options, in the order selected
Multiselect(options) ==
    {s \in UNION {[1..n -> options] : n \in 0..Cardinality(options)} :
        \A i, j \in 1..Len(s) : i # j => s[i] # s[j]}

\* load_data(data_path, data_limit): the file's rows, truncated to the limit
load_data(rows, limit) ==
    SubSeq(rows, 1, IF limit < Len(rows) THEN limit ELSE Len(rows))

\* apply_filters(df, filters): the rows equal to the chosen value in every
\* column whose filter is not None
apply_filters(df, fs) ==
    SelectSeq(df, LAMBDA r : \A c \in DOMAIN fs : fs[c] = None \/ r[c] = fs[c][1])

\* px.histogram(df, x=column, marginal="box", nbins=30, ...)
NumericHistogram(column) ==
    [x |-> column, marginal |-> "box", nbins |-> NBins, color |-> ""]

\* px.histogram(df, x=column, color=column, ...)
CategoricalHistogram(column) ==
    [x |-> column, marginal |-> "", nbins |-> 0, color |-> column]

\* variant: the two branches of display_column_summary exchanged
display_column_summary_swapped(column) ==
    IF IsNumericDtype(column) THEN CategoricalHistogram(column)
    ELSE NumericHistogram(column)

\* the px.histogram call of display_column_summary
display_column_summary(column) ==
    IF IsNumericDtype(column) THEN NumericHistogram(column)
    ELSE CategoricalHistogram(column)

AnalysisOptions ==
    <<"Univariate Analysis", "Bivariate Analysis", "Multivariate Analysis",
      "Correlation Analysis", "Cross Tabulation">>
AnalysisOptionSet == {AnalysisOptions[i] : i \in 1..Len(AnalysisOptions)}

(***************************************************************************)
(* The script.                                                             *)
(***************************************************************************)
Init ==
    /\ pc = "import"
    /\ err = ""
    /\ imports = 0
    /\ installs = 0
    /\ page_configured = FALSE
    /\ db \in DbChoices
    /\ datasets = << >>
    /\ dataset_name = ""
    /\ data_limit = DefaultLimit
    /\ selected_dataset = None
    /\ data_path = ""
    /\ file_rows = << >>
    /\ selected_data = << >>
    /\ filter_options = << >>
    /\ filters = << >>
    /\ filtered_data = << >>
    /\ trace = << >>
    /\ summary_input = << >>
    /\ analysis_input = << >>
    /\ table_shown = << >>
    /\ charts = << >>
    /\ summary_column = ""
    /\ analysis_option = ""
    /\ analysis_ready = FALSE
    /\ analysis_calls = << >>

importVars == <<imports, installs, page_configured>>
mainVars == <<datasets, dataset_name, data_limit, selected_dataset, data_path,
              file_rows, selected_data, filter_options, filters, filtered_data>>
tabVars == <<summary_input, analysis_input, table_shown, charts, summary_column,
             analysis_option, analysis_ready, analysis_calls>>

\* an exception leaves the script: nothing after the raising call runs
Raise(e) == pc' = "raised" /\ err' = e

\* try: import plotly.express as px
ImportPlotly ==
    /\ pc = "import"
    /\ imports' = imports + 1
    /\ \/ pc' = "page_config" /\ err' = err
       \/ pc' = "install" /\ err' = err
       \/ Raise("ImportError")
    /\ UNCHANGED <<installs, page_configured, db, mainVars, trace, tabVars>>

\* variant: a failed installation is run again
InstallPlotlyRetry ==
    /\ pc = "install"
    /\ installs' = installs + 1
    /\ \/ pc' = "reimport" /\ err' = err
       \/ pc' = "install" /\ err' = err
    /\ UNCHANGED <<imports, page_configured, db, mainVars, trace, tabVars>>

\* except ModuleNotFoundError: subprocess.check_call([... "pip", "install", "plotly"])
InstallPlotly ==
    /\ pc = "install"
    /\ installs' = installs + 1
    /\ \/ pc' = "reimport" /\ err' = err
       \/ Raise("CalledProcessError")
    /\ UNCHANGED <<imports, page_configured, db, mainVars, trace, tabVars>>

\* the second import plotly.express as px, inside the except block
ReimportPlotly ==
    /\ pc = "reimport"
    /\ imports' = imports + 1
    /\ \/ pc' = "page_config" /\ err' = err
       \/ Raise("ModuleNotFoundError")
    /\ UNCHANGED <<installs, page_configured, db, mainVars, trace, tabVars>>

\* st.set_page_config(...), then the script calls main()
SetPageConfig ==
    /\ pc = "page_config"
    /\ page_configured' = TRUE
    /\ pc' = "main"
    /\ UNCHANGED <<err, imports, installs, db, mainVars, trace, tabVars>>

\* st.title; db = next(get_db()); datasets = db.query(Dataset).all()
MainQuery ==
    /\ pc = "main"
    /\ \/ /\ datasets' = db
          /\ trace' = trace \o <<"title", "query_datasets">>
          /\ pc' = "guard" /\ err' = err
       \/ /\ trace' = trace \o <<"title", "query_datasets">>
          /\ Raise("OperationalError")
          /\ UNCHANGED datasets
    /\ UNCHANGED <<importVars, db, dataset_name, data_limit, selected_dataset,
                   data_path, file_rows, selected_data, filter_options, filters,
                   filtered_data, tabVars>>

\* variant: the guard shows its message but does not return
MainNoDatasetsNoReturn ==
    /\ pc = "guard"
    /\ datasets = << >>
    /\ trace' = trace \o <<"no_datasets_msg", "dataset_selector", "limit_input">>
    /\ pc' = "lookup"
    /\ UNCHANGED <<err, importVars, db, mainVars, tabVars>>

\* if not datasets: st.write("No datasets available ..."); return
MainNoDatasets ==
    /\ pc = "guard"
    /\ datasets = << >>
    /\ trace' = Append(trace, "no_datasets_msg")
    /\ pc' = "done"
    /\ UNCHANGED <<err, importVars, db, mainVars, tabVars>>

\* dataset_names; the sidebar's dataset selectbox and row-limit number input
MainSidebar ==
    /\ pc = "guard"
    /\ datasets # << >>
    /\ \E i \in 1..Len(datasets), limit \in Limits :
          /\ dataset_name' = datasets[i].name
          /\ data_limit' = limit
    /\ trace' = trace \o <<"dataset_selector", "limit_input">>
    /\ pc' = "lookup"
    /\ UNCHANGED <<err, importVars, db, datasets, selected_dataset, data_path,
                   file_rows, selected_data, filter_options, filters,
                   filtered_data, tabVars>>

\* if dataset_name: is false, main() falls off its end
MainNoSelection ==
    /\ pc = "lookup"
    /\ dataset_name = ""
    /\ pc' = "done"
    /\ UNCHANGED <<err, importVars, db, mainVars, trace, tabVars>>

\* db.query(Dataset).filter(Dataset.name == dataset_name).first()
FirstByName(name) ==
    IF \E i \in 1..Len(db) : db[i].name = name
    THEN Some(db[CHOOSE i \in 1..Len(db) :
                    /\ db[i].name = name
                    /\ \A j \in 1..(i - 1) : db[j].name # name])
    ELSE None

\* selected_dataset = ...first(); data_path = selected_dataset.filepath
MainLookup ==
    /\ pc = "lookup"
    /\ dataset_name # ""
    /\ trace' = Append(trace, "lookup_path")
    /\ \E found \in {FirstByName(dataset_name), None} :
          /\ selected_dataset' = found
          /\ IF found = None
             THEN Raise("AttributeError") /\ UNCHANGED data_path
             ELSE /\ data_path' = found[1].filepath
                  /\ pc' = "load" /\ err' = err
    /\ UNCHANGED <<importVars, db, datasets, dataset_name, data_limit, file_rows,
                   selected_data, filter_options, filters, filtered_data, tabVars>>

\* variant: a failed load is replaced by an empty table and the cycle goes on
MainLoadFallback ==
    /\ pc = "load"
    /\ trace' = Append(trace, "load_data")
    /\ \/ \E rows \in FileContents :
             /\ file_rows' = rows
             /\ selected_data' = load_data(rows, data_limit)
             /\ pc' = "filters" /\ err' = err
       \/ /\ err' = "FileNotFoundError"
          /\ pc' = "filters"
          /\ UNCHANGED <<file_rows, selected_data>>
    /\ UNCHANGED <<importVars, db, datasets, dataset_name, data_limit,
                   selected_dataset, data_path, filter_options, filters,
                   filtered_data, tabVars>>

\* with st.spinner(...): selected_data = load_data(data_path, data_limit)
MainLoad ==
    /\ pc = "load"
    /\ trace' = Append(trace, "load_data")
    /\ \/ \E rows \in FileContents :
             /\ file_rows' = rows
             /\ selected_data' = load_data(rows, data_limit)
             /\ pc' = "filters" /\ err' = err
       \/ /\ Raise("FileNotFoundError")
          /\ UNCHANGED <<file_rows, selected_data>>
    /\ UNCHANGED <<importVars, db, datasets, dataset_name, data_limit,
                   selected_dataset, data_path, filter_options, filters,
                   filtered_data, tabVars>>

\* variant: the threshold itself still gets a filter
FilterableInclusive(df) ==
    {c \in ColumnSet : Len(Unique(df, c)) <= FilterThreshold}

\* the columns that get a "Filter by <column>" selectbox
Filterable(df) ==
    {c \in ColumnSet : Len(Unique(df, c)) < FilterThreshold}

\* filters = {}; for column in selected_data.columns: ... st.sidebar.selectbox
MainBuildFilters ==
    /\ pc = "filters"
    /\ trace' = Append(trace, "build_filters")
    /\ filter_options' = [c \in Filterable(selected_data) |->
                               FilterOptions(Unique(selected_data, c))]
    /\ \E pick \in [DOMAIN filter_options' -> 1..(Len(selected_data) + 1)] :
          /\ \A c \in DOMAIN pick : pick[c] <= Len(filter_options'[c])
          /\ filters' = [c \in DOMAIN pick |-> filter_options'[c][pick[c]]]
    /\ pc' = "apply"
    /\ UNCHANGED <<err, importVars, db, datasets, dataset_name, data_limit,
                   selected_dataset, data_path, file_rows, selected_data,
                   filtered_data, tabVars>>

\* variant: the filter dictionary is not passed on
MainApplyFiltersIgnored ==
    /\ pc = "apply"
    /\ trace' = Append(trace, "apply_filters")
    /\ \/ /\ filtered_data' = apply_filters(selected_data, << >>)
          /\ pc' = "summary_tab" /\ err' = err
       \/ /\ Raise("KeyError")
          /\ UNCHANGED filtered_data
    /\ UNCHANGED <<importVars, db, datasets, dataset_name, data_limit,
                   selected_dataset, data_path, file_rows, selected_data,
                   filter_options, filters, tabVars>>

\* filtered_data = apply_filters(selected_data, filters)
MainApplyFilters ==
    /\ pc = "apply"
    /\ trace' = Append(trace, "apply_filters")
    /\ \/ /\ filtered_data' = apply_filters(selected_data, filters)
          /\ pc' = "summary_tab" /\ err' = err
       \/ /\ Raise("KeyError")
          /\ UNCHANGED filtered_data
    /\ UNCHANGED <<importVars, db, datasets, dataset_name, data_limit,
                   selected_dataset, data_path, file_rows, selected_data,
                   filter_options, filters, tabVars>>

\* variant: the Summary tab is given the loaded table
SummaryTabUnfiltered ==
    /\ pc = "summary_tab"
    /\ trace' = Append(trace, "summary_tab")
    /\ summary_input' = selected_data
    /\ \/ \E column \in ColumnSet :
             /\ summary_column' = column
             /\ charts' = IF column # ""
                          THEN Append(charts, display_column_summary(column))
                          ELSE charts
             /\ pc' = "analysis_tab" /\ err' = err
       \/ /\ Raise("ValueError")
          /\ UNCHANGED <<summary_column, charts>>
    /\ UNCHANGED <<importVars, db, mainVars, analysis_input, table_shown,
                   analysis_option, analysis_ready, analysis_calls>>

\* with tabs[0]: handle_data_summary_tab(filtered_data)
SummaryTab ==
    /\ pc = "summary_tab"
    /\ trace' = Append(trace, "summary_tab")
    /\ summary_input' = filtered_data
    /\ \/ \E column \in ColumnSet :
             /\ summary_column' = column
             /\ charts' = IF column # ""
                          THEN Append(charts, display_column_summary(column))
                          ELSE charts
             /\ pc' = "analysis_tab" /\ err' = err
       \/ /\ Raise("ValueError")
          /\ UNCHANGED <<summary_column, charts>>
    /\ UNCHANGED <<importVars, db, mainVars, analysis_input, table_shown,
                   analysis_option, analysis_ready, analysis_calls>>

Call(routine, args) == [routine |-> routine, args |-> args]

\* the if/elif chain of handle_data_analysis_tab for one choice of the
\* widgets: <<the columns needed are selected, the routine calls made>>
AnalysisOutcomes(option) ==
    IF option = "Univariate Analysis"
    THEN {<<c # "", IF c # "" THEN <<Call("display_univariate_analysis", <<c>>)>>
                    ELSE << >> >> : c \in ColumnSet}
    ELSE IF option = "Bivariate Analysis"
    THEN {<<p[1] # "" /\ p[2] # "",
            IF p[1] # "" /\ p[2] # ""
            THEN <<Call("display_bivariate_analysis", <<p[1], p[2]>>)>>
            ELSE << >> >> : p \in ColumnSet \X ColumnSet}
    ELSE IF option = "Multivariate Analysis"
    THEN {<<s # << >>,
            IF s # << >> THEN <<Call("display_multivariate_analysis", s)>>
            ELSE << >> >> : s \in Multiselect(ColumnSet)}
    ELSE IF option = "Correlation Analysis"
    THEN {<<TRUE, <<Call("display_correlation_analysis", << >>)>> >>}
    ELSE {<<TRUE, << >> >>}

\* variant: the Analysis tab is given the loaded table
AnalysisTabUnfiltered ==
    /\ pc = "analysis_tab"
    /\ trace' = Append(trace, "analysis_tab")
    /\ analysis_input' = selected_data
    /\ \/ \E option \in AnalysisOptionSet :
          \E outcome \in AnalysisOutcomes(option) :
             /\ analysis_option' = option
             /\ analysis_ready' = outcome[1]
             /\ analysis_calls' = analysis_calls \o outcome[2]
             /\ pc' = "other_tab" /\ err' = err
       \/ /\ Raise("ValueError")
          /\ UNCHANGED <<analysis_option, analysis_ready, analysis_calls>>
    /\ UNCHANGED <<importVars, db, mainVars, summary_input, table_shown, charts,
                   summary_column>>

\* with tabs[1]: handle_data_analysis_tab(filtered_data)
AnalysisTab ==
    /\ pc = "analysis_tab"
    /\ trace' = Append(trace, "analysis_tab")
    /\ analysis_input' = filtered_data
    /\ \/ \E option \in AnalysisOptionSet :
          \E outcome \in AnalysisOutcomes(option) :
             /\ analysis_option' = option
             /\ analysis_ready' = outcome[1]
             /\ analysis_calls' = analysis_calls \o outcome[2]
             /\ pc' = "other_tab" /\ err' = err
       \/ /\ Raise("ValueError")
          /\ UNCHANGED <<analysis_option, analysis_ready, analysis_calls>>
    /\ UNCHANGED <<importVars, db, mainVars, summary_input, table_shown, charts,
                   summary_column>>

\* with tabs[2]: the static third tab
OtherTab ==
    /\ pc = "other_tab"
    /\ trace' = Append(trace, "other_tab")
    /\ pc' = "view_data"
    /\ UNCHANGED <<err, importVars, db, mainVars, tabVars>>

\* st.write(f"Displaying first {data_limit} rows ..."); st.dataframe(filtered_data)
ViewData ==
    /\ pc = "view_data"
    /\ trace' = Append(trace, "data_table")
    /\ table_shown' = filtered_data
    /\ pc' = "done"
    /\ UNCHANGED <<err, importVars, db, mainVars, summary_input, analysis_input,
                   charts, summary_column, analysis_option, analysis_ready,
                   analysis_calls>>

Next ==
    \/ ImportPlotly
    \/ InstallPlotly
    \/ ReimportPlotly
    \/ SetPageConfig
    \/ MainQuery
    \/ MainNoDatasets
    \/ MainSidebar
    \/ MainNoSelection
    \/ MainLookup
    \/ MainLoad
    \/ MainBuildFilters
    \/ MainApplyFilters
    \/ SummaryTab
    \/ AnalysisTab
    \/ OtherTab
    \/ ViewData

Spec == Init /\ [][Next]_vars

(***************************************************************************)
(* Properties.                                                             *)
(***************************************************************************)
InTrace(e) == \E i \in 1..Len(trace) : trace[i] = e
Occurrences(e) == Cardinality({i \in 1..Len(trace) : trace[i] = e})
Rows(df) == {df[i] : i \in 1..Len(df)}

\* C1: when the dataset query returns no records, the cycle shows the
\* "No datasets available" message and ends: no dataset selector, no
\* load_data, no apply_filters, no tab and no data table in that cycle.
C1_NoDatasetsGuard ==
    (InTrace("query_datasets") /\ datasets = << >> /\ pc # "raised") =>
        /\ pc \in {"guard", "done"}
        /\ pc = "done" => trace = <<"title", "query_datasets", "no_datasets_msg">>
        /\ \A e \in {"dataset_selector", "limit_input", "lookup_path", "load_data",
                     "build_filters", "apply_filters", "summary_tab",
                     "analysis_tab", "other_tab", "data_table"} : ~InTrace(e)
        /\ charts = << >> /\ analysis_calls = << >>

C1_Witness ==
    /\ pc = "done"
    /\ db = << >>
    /\ InTrace("no_datasets_msg")

\* the positions of the rows of df that equal the chosen value in every
\* column whose filter is not None
MatchingPositions(df, fs) ==
    {i \in 1..Len(df) : \A c \in DOMAIN fs : fs[c] # None => df[i][c] = fs[c][1]}

\* view consists of exactly the rows of df at the positions in keep, in order
IsRestriction(view, df, keep) ==
    /\ Len(view) = Cardinality(keep)
    /\ \A i \in keep : view[Cardinality({j \in keep : j <= i})] = df[i]

\* C2: the filtered view passed to the tabs is exactly the rows of the loaded
\* table that equal the chosen value in every column whose filter is not
\* None; it is a subset of the loaded table's rows and equals the loaded
\* table when every filter is None.
C2_FilteredViewExact ==
    (InTrace("summary_tab") /\ pc # "raised") =>
        /\ IsRestriction(summary_input, selected_data,
                         MatchingPositions(selected_data, filters))
        /\ Rows(summary_input) \subseteq Rows(selected_data)
        /\ (\A c \in DOMAIN filters : filters[c] = None) =>
               summary_input = selected_data
        /\ InTrace("analysis_tab") => analysis_input = summary_input

C2_Witness ==
    /\ InTrace("analysis_tab")
    /\ Len(selected_data) = 2
    /\ Len(summary_input) = 1
    /\ summary_input[1] = selected_data[2]
    /\ \E c \in DOMAIN filters : filters[c] # None

\* C3: display_column_summary renders one distribution chart per call, chosen
\* by the column's type alone: the numeric histogram (box marginal, 30 bins)
\* for a numeric column, the histogram coloured by the column otherwise.
C3_ChartByColumnType ==
    /\ Len(charts) <= 1
    /\ (InTrace("summary_tab") /\ pc # "raised") =>
           Len(charts) = 1 /\ charts[1].x = summary_column
    /\ \A i \in 1..Len(charts) :
          IF IsNumericDtype(charts[i].x)
          THEN /\ charts[i].marginal = "box"
               /\ charts[i].nbins = 30
               /\ charts[i].color = ""
          ELSE /\ charts[i].color = charts[i].x
               /\ charts[i].marginal = ""
               /\ charts[i].nbins = 0

C3_Witness ==
    /\ Len(charts) = 1
    /\ charts[1].x = "cat"
    /\ charts[1].color = "cat"
    /\ pc = "done"

StepOrder ==
    <<"query_datasets", "lookup_path", "load_data", "build_filters",
      "apply_filters", "summary_tab", "analysis_tab", "data_table">>
StepRank(e) == CHOOSE k \in 1..Len(StepOrder) : StepOrder[k] = e
IsStep(e) == \E k \in 1..Len(StepOrder) : StepOrder[k] = e

\* C4: in a render cycle the steps happen in the order query, path lookup,
\* load, build filters, apply filters, Summary tab, Analysis tab, data table,
\* each at most once; nothing is rendered before the filters are applied and
\* nothing is rendered from the unfiltered table.
C4_StepOrder ==
    /\ \A i, j \in 1..Len(trace) :
          (i < j /\ IsStep(trace[i]) /\ IsStep(trace[j])) =>
              StepRank(trace[i]) < StepRank(trace[j])
    /\ \A e \in {"summary_tab", "analysis_tab", "other_tab", "data_table"} :
          InTrace(e) => \A k \in 1..(StepRank("apply_filters")) :
                            Occurrences(StepOrder[k]) = 1
    /\ (charts # << >> \/ analysis_calls # << >>) => InTrace("apply_filters")
    /\ InTrace("summary_tab") => summary_input = filtered_data
    /\ InTrace("analysis_tab") => analysis_input = filtered_data
    /\ InTrace("data_table") => table_shown = filtered_data

C4_Witness ==
    /\ pc = "done"
    /\ InTrace("data_table")
    /\ filtered_data # selected_data

RoutineOf(option) ==
    IF option = "Univariate Analysis" THEN "display_univariate_analysis"
    ELSE IF option = "Bivariate Analysis" THEN "display_bivariate_analysis"
    ELSE IF option = "Multivariate Analysis" THEN "display_multivariate_analysis"
    ELSE IF option = "Correlation Analysis" THEN "display_correlation_analysis"
    ELSE "display_cross_tabulation"

\* C5: every option of the analysis type selector leads, once the columns it
\* requires are selected, to one call of that option's own display routine
\* and of no other routine.
C5_EveryOptionHasRoutine ==
    (InTrace("analysis_tab") /\ pc # "raised" /\ analysis_ready) =>
        /\ Len(analysis_calls) = 1
        /\ analysis_calls[1].routine = RoutineOf(analysis_option)

\* C6: a failure in a step of main() ends the render cycle with the error
\* propagated: the step is not retried, no later step runs and nothing more
\* is rendered.
C6_FailurePropagates ==
    /\ [](err # "" => pc = "raised")
    /\ [][pc = "raised" => UNCHANGED vars]_vars
    /\ [](\A e \in {"lookup_path", "load_data", "apply_filters", "summary_tab",
                    "analysis_tab"} : Occurrences(e) <= 1)
    /\ [](pc = "raised" => ~InTrace("data_table") /\ table_shown = << >>)

C6_Witness ==
    /\ pc = "raised"
    /\ err = "FileNotFoundError"
    /\ trace[Len(trace)] = "load_data"

\* C7: a successful import installs nothing; a module-not-found import is
\* followed by exactly one installation and one more import; a failed
\* installation or second import propagates and the page is not set up.
C7_ImportFallback ==
    /\ installs <= 1
    /\ imports <= 2
    /\ imports = 2 => installs = 1
    /\ (installs = 1 /\ imports = 1) =>
           (pc = "reimport" \/ err = "CalledProcessError")
    /\ (page_configured /\ installs = 1) => imports = 2
    /\ err \in {"ImportError", "CalledProcessError", "ModuleNotFoundError"} =>
           (pc = "raised" /\ ~page_configured /\ trace = << >>)
    /\ pc = "install" => (installs = 0 /\ imports = 1)

C7_Witness ==
    /\ page_configured
    /\ installs = 1
    /\ imports = 2

DistinctCount(df, c) == Cardinality({df[i][c] : i \in 1..Len(df)})

\* C8: a sidebar filter is offered for a column iff the column has fewer than
\* 100 distinct values in the loaded table; a column without a filter never
\* restricts the view; every offered filter has None as first and default
\* option.
C8_FilterOfferedBelowThreshold ==
    (InTrace("build_filters") /\ pc # "raised") =>
        /\ \A c \in ColumnSet :
              c \in DOMAIN filters <=> DistinctCount(selected_data, c) < 100
        /\ DOMAIN filter_options = DOMAIN filters
        /\ \A c \in DOMAIN filter_options :
              /\ filter_options[c][1] = None
              /\ SelectboxDefault(filter_options[c]) = None
              /\ Len(filter_options[c]) = DistinctCount(selected_data, c) + 1
              /\ \E k \in 1..Len(filter_options[c]) : filters[c] = filter_options[c][k]
        /\ InTrace("summary_tab") =>
              \A i \in 1..Len(selected_data) :
                 (\A c \in DOMAIN filters :
                     filters[c] = None \/ selected_data[i][c] = filters[c][1])
                 => selected_data[i] \in Rows(filtered_data)

C8_Witness ==
    /\ InTrace("summary_tab")
    /\ "id" \notin DOMAIN filters
    /\ "cat" \in DOMAIN filters
    /\ filters["cat"] # None

\* C9: the table shown under "Displaying first {data_limit} rows of
\* {dataset_name}" is the first data_limit rows of the selected dataset.
C9_TableIsFirstRows ==
    InTrace("data_table") =>
        /\ Len(table_shown) = (IF data_limit < Len(file_rows)
                               THEN data_limit ELSE Len(file_rows))
        /\ \A i \in 1..Len(table_shown) : table_shown[i] = file_rows[i]

\* C10: the Summary tab, the Analysis tab and the data table are computed
\* from one and the same filtered view; the filters and the view are built
\* once, before the first tab, and never reloaded, refiltered or reassigned.
C10_OneFilteredView ==
    /\ [](InTrace("analysis_tab") => analysis_input = summary_input)
    /\ [](InTrace("data_table") =>
             (table_shown = summary_input /\ table_shown = analysis_input))
    /\ [][InTrace("apply_filters") =>
             UNCHANGED <<filters, filtered_data, selected_data>>]_vars
    /\ [](InTrace("summary_tab") =>
             (Occurrences("build_filters") = 1 /\ Occurrences("apply_filters") = 1
              /\ Occurrences("load_data") = 1))

C10_Witness ==
    /\ pc = "done"
    /\ InTrace("data_table")
    /\ table_shown # selected_data
    /\ table_shown = summary_input

====
